---- MODULE Spec2Model ----
(***************************************************************************)
(* Model of the middlewared job core: Job and its state guard, the shared  *)
(* named locks, the JobsQueue scheduler loop, the bounded JobsDeque and    *)
(* the websocket session protocol of Application / Middleware.             *)
(*                                                                         *)
(* The program runs on gevent: greenlets are cooperative, so a piece of    *)
(* code between two blocking calls is one atomic action here.  The         *)
(* scheduler greenlet (JobsQueue.run) blocks only in queue_event.wait()    *)
(* on a cleared event; while the event is set it keeps iterating and no    *)
(* other greenlet runs (schedPc = "running").                              *)
(***************************************************************************)
EXTENDS Integers, Sequences, FiniteSets, TLC

VARIABLES
    jobs,         \* every constructed Job object, in construction order
    task,         \* per Job: where the greenlet running Job.run stands
    queue,        \* JobsQueue.queue: pending jobs (indices into jobs)
    queue_event,  \* JobsQueue.queue_event: TRUE when set
    job_locks,    \* JobsQueue.job_locks: lock name -> JobSharedLock object
    locks,        \* every JobSharedLock object ever created
    schedPc,      \* the greenlet running JobsQueue.run
    scan,         \* the locals of JobsQueue.next: position, lock, found
    count,        \* JobsDeque.count
    dict,         \* JobsDeque.__dict: insertion-ordered (key, job) items
    clock,        \* number of datetime.now() stamps taken by set_state
    lastCall,     \* the latest direct Job.set_state call and its outcome
    handshake,    \* Application.handshake
    authenticated,\* Application.authenticated
    sent,         \* everything Application._send has written to the socket
    invoked,      \* ids of the method messages whose method body was called
    received      \* log of Application.on_message calls, one entry each

vars == <<jobs, task, queue, queue_event, job_locks, locks, schedPc, scan,
          count, dict, clock, lastCall, handshake, authenticated, sent,
          invoked, received>>

schedVars == <<task, queue, queue_event, job_locks, locks, schedPc, scan>>
dequeVars == <<count, dict>>
sessionVars == <<handshake, authenticated, sent, invoked, received>>

-----------------------------------------------------------------------------
(* Bounds of the model *)

MaxJobs == 3
MaxPlainJobs == 2
MaxReportingJobs == 2
MaxAdds == 1002
MaxMessages == 3

-----------------------------------------------------------------------------
(* Values *)

\* Python's None where the field otherwise holds a positive number
\* (Job.id, Job.lock, Job.time_finished).
None == 0

\* options.get('lock') of a job method declared without a lock.
NoName == "None"

LockNames == {"backup", "sync"}

States == {"WAITING", "RUNNING", "SUCCESS", "FAILED"}

\* The percentages a job method reports.
Percents == {10, 50}

-----------------------------------------------------------------------------
(* Job *)

\* Job.__init__
NewJobObject(lockopt) ==
    [id |-> None, lockopt |-> lockopt, lock |-> None, result |-> "None",
     state |-> "WAITING", percent |-> None, time_finished |-> None]

\* Job.get_lock_name
get_lock_name(j) == jobs[j].lockopt

StateGuardRejectsFailed(cur, state) ==
    ~ \/ (cur = "WAITING" /\ state \in {"WAITING", "SUCCESS"})
      \/ (cur = "RUNNING" /\ state \in {"WAITING", "RUNNING", "FAILED"})
      \/ cur \in {"SUCCESS", "FAILED"}

StateGuardForgetsFailed(cur, state) ==
    ~ \/ (cur = "WAITING" /\ state \in {"WAITING", "SUCCESS"})
      \/ (cur = "RUNNING" /\ state \in {"WAITING", "RUNNING"})
      \/ cur \in {"SUCCESS"}

\* The three assert statements of Job.set_state: TRUE when all pass.
StateGuard(cur, state) ==
    ~ \/ (cur = "WAITING" /\ state \in {"WAITING", "SUCCESS"})
      \/ (cur = "RUNNING" /\ state \in {"WAITING", "RUNNING"})
      \/ cur \in {"SUCCESS", "FAILED"}

\* Job.set_state: the job after the call, and whether it raised.
set_state(job, state, now) ==
    IF StateGuard(job.state, state)
    THEN [raised |-> FALSE,
          job |-> [job EXCEPT !.state = state, !.time_finished = now]]
    ELSE [raised |-> TRUE, job |-> job]

\* Job.set_progress(percent): the percent reported is an integer.
set_progress(job, percent) == [job EXCEPT !.percent = percent]

\* What a set_state call may change of a job.
Stamp(job) == [state |-> job.state, time_finished |-> job.time_finished]

-----------------------------------------------------------------------------
(* JobSharedLock and the registry *)

\* JobSharedLock.__init__: Semaphore() starts with counter 1.
JobSharedLock(name) == [name |-> name, jobs |-> <<>>, counter |-> 1]

lockedOffByOne(lock) == lock.counter < 0

\* JobSharedLock.locked: Semaphore.locked() is counter <= 0.
locked(lock) == lock.counter <= 0

\* list.remove: drops the first occurrence.
RECURSIVE RemoveFirst(_, _)
RemoveFirst(s, x) ==
    IF s = <<>> THEN <<>>
    ELSE IF Head(s) = x THEN Tail(s)
    ELSE <<Head(s)>> \o RemoveFirst(Tail(s), x)

\* dict.pop(name)
Pop(R, name) == [n \in DOMAIN R \ {name} |-> R[n]]

\* JobsQueue.get_lock, on lock objects L and registry R.
get_lock(j, L, R) ==
    LET name == get_lock_name(j) IN
    IF name = NoName
    THEN [lock |-> None, locks |-> L, job_locks |-> R]
    ELSE LET fresh == name \notin DOMAIN R
             L1 == IF fresh THEN Append(L, JobSharedLock(name)) ELSE L
             R1 == IF fresh THEN (name :> Len(L1)) @@ R ELSE R
             k  == R1[name]
         IN [lock |-> k,
             locks |-> [L1 EXCEPT ![k].jobs = Append(@, j)],
             job_locks |-> R1]

release_lockKeepsSemaphore(j, L, R, ev) ==
    LET k == jobs[j].lock IN
    IF k = None
    THEN [locks |-> L, job_locks |-> R, queue_event |-> ev]
    ELSE LET L1 == [L EXCEPT ![k].jobs = RemoveFirst(@, j)]
             R1 == IF Len(L1[k].jobs) = 0 THEN Pop(R, L1[k].name) ELSE R
         IN [locks |-> L1, job_locks |-> R1, queue_event |-> TRUE]

\* JobsQueue.release_lock
release_lock(j, L, R, ev) ==
    LET k == jobs[j].lock IN
    IF k = None
    THEN [locks |-> L, job_locks |-> R, queue_event |-> ev]
    ELSE LET L1 == [L EXCEPT ![k].jobs = RemoveFirst(@, j),
                             ![k].counter = @ + 1]
             R1 == IF Len(L1[k].jobs) = 0 THEN Pop(R, L1[k].name) ELSE R
         IN [locks |-> L1, job_locks |-> R1, queue_event |-> TRUE]

-----------------------------------------------------------------------------
(* JobsDeque *)

maxlen == 1000

NextCountReusesEvicted(c) ==
    IF Len(dict) > maxlen THEN dict[1].key ELSE c + 1

\* JobsDeque.add: self.count += 1, the id handed to job.set_id.
NextCount(c) == c + 1

\* JobsDeque.add, after count += 1 and job.set_id(count): the items kept.
DequeItems(items, id, j) ==
    Append(IF Len(items) > maxlen THEN Tail(items) ELSE items,
           [key |-> id, job |-> j])

\* JobsDeque.all: the keys of the ordered dict.
DequeKeys == {dict[i].key : i \in 1..Len(dict)}

-----------------------------------------------------------------------------
(* JobsQueue.next *)

ScanQueueStopsAtLocked(i, L, R) ==
    IF i > Len(queue)
    THEN [found |-> None, lock |-> None, raised |-> FALSE,
          locks |-> L, job_locks |-> R]
    ELSE LET g == get_lock(queue[i], L, R) IN
         IF g.lock = None
         THEN [found |-> queue[i], lock |-> None, raised |-> TRUE,
               locks |-> g.locks, job_locks |-> g.job_locks]
         ELSE IF ~locked(g.locks[g.lock])
         THEN [found |-> queue[i], lock |-> g.lock, raised |-> FALSE,
               locks |-> [g.locks EXCEPT ![g.lock].counter = @ - 1],
               job_locks |-> g.job_locks]
         ELSE [found |-> None, lock |-> None, raised |-> FALSE,
               locks |-> g.locks, job_locks |-> g.job_locks]

\* The for loop of JobsQueue.next from position i of the queue: the job
\* found (None when the scan ends without one), the lock handed to
\* set_lock, whether set_lock raised, and the lock objects and registry
\* as the calls to get_lock leave them.
RECURSIVE ScanQueue(_, _, _)
ScanQueue(i, L, R) ==
    IF i > Len(queue)
    THEN [found |-> None, lock |-> None, raised |-> FALSE,
          locks |-> L, job_locks |-> R]
    ELSE LET g == get_lock(queue[i], L, R) IN
         IF g.lock = None
         THEN \* set_lock(None): None.acquire() raises AttributeError
              [found |-> queue[i], lock |-> None, raised |-> TRUE,
               locks |-> g.locks, job_locks |-> g.job_locks]
         ELSE IF ~locked(g.locks[g.lock])
         THEN [found |-> queue[i], lock |-> g.lock, raised |-> FALSE,
               locks |-> [g.locks EXCEPT ![g.lock].counter = @ - 1],
               job_locks |-> g.job_locks]
         ELSE ScanQueue(i + 1, g.locks, g.job_locks)

-----------------------------------------------------------------------------
\* Everything but the outcome of Application._check_permission.
CoreInit ==
    /\ jobs = <<>>
    /\ task = <<>>
    /\ queue = <<>>
    /\ queue_event = FALSE
    /\ job_locks = <<>>
    /\ locks = <<>>
    /\ schedPc = "blocked"
    /\ scan = [i |-> 1, lock |-> None, found |-> None]
    /\ count = 0
    /\ dict = <<>>
    /\ clock = 1
    /\ lastCall = [job |-> None, state |-> "None", raised |-> FALSE,
                   before |-> Stamp(NewJobObject(NoName))]
    /\ handshake = FALSE
    /\ sent = <<>>
    /\ invoked = {}
    /\ received = <<>>

\* The daemon with its scheduler started and no privileged connection.
Init == CoreInit /\ authenticated = FALSE

\* Job(method, args, options): a caller constructs a job.  Callers build
\* a job and hand it over before they build the next one
\* (Middleware.call_method: job = Job(); self.__jobs.add(job)).
NewJob(lockopt) ==
    /\ schedPc # "running"
    /\ Len(jobs) < MaxJobs
    /\ \A i \in DOMAIN jobs : jobs[i].id # None
    /\ jobs' = Append(jobs, NewJobObject(lockopt))
    /\ task' = Append(task, "none")
    /\ UNCHANGED <<queue, queue_event, job_locks, locks, schedPc, count, dict,
                   clock, lastCall>>
    /\ UNCHANGED sessionVars
    /\ UNCHANGED scan

\* JobsQueue.add(job), with JobsDeque.add inside it.
Add(j) ==
    /\ schedPc # "running"
    /\ j \in DOMAIN jobs
    /\ jobs[j].id = None
    /\ count' = NextCount(count)
    /\ jobs' = [jobs EXCEPT ![j].id = count']
    /\ dict' = DequeItems(dict, count', j)
    /\ queue' = Append(queue, j)
    /\ queue_event' = TRUE
    /\ UNCHANGED <<task, job_locks, locks, schedPc, clock, lastCall>>
    /\ UNCHANGED sessionVars
    /\ UNCHANGED scan

\* One pass of the while loop of JobsQueue.next, entered with the event
\* set, and, when it returns a job, the gevent.spawn of JobsQueue.run.
SchedNext ==
    /\ schedPc # "crashed"
    /\ queue_event
    /\ LET s == ScanQueue(1, locks, job_locks) IN
       /\ locks' = s.locks
       /\ job_locks' = s.job_locks
       /\ IF s.found = None
          THEN /\ queue_event' = FALSE
               /\ schedPc' = "blocked"
               /\ UNCHANGED <<jobs, task, queue>>
          ELSE IF s.raised
          THEN /\ schedPc' = "crashed"
               /\ jobs' = [jobs EXCEPT ![s.found].lock = None]
               /\ UNCHANGED <<task, queue, queue_event>>
          ELSE /\ jobs' = [jobs EXCEPT ![s.found].lock = s.lock]
               /\ queue' = RemoveFirst(queue, s.found)
               /\ queue_event' = (Len(queue') # 0)
               /\ schedPc' = IF queue_event' THEN "running" ELSE "blocked"
               /\ task' = [task EXCEPT ![s.found] = "spawned"]
    /\ UNCHANGED <<count, dict, clock, lastCall>>
    /\ UNCHANGED sessionVars
    /\ UNCHANGED scan

\* Job.run up to the call of the method: set_state('RUNNING').  Should the
\* call raise, the except clause asks for FAILED and the finally clause
\* releases the lock.
RunStart(j) ==
    /\ schedPc # "running"
    /\ j \in DOMAIN jobs
    /\ task[j] = "spawned"
    /\ LET r == set_state(jobs[j], "RUNNING", clock) IN
       IF ~r.raised
       THEN /\ jobs' = [jobs EXCEPT ![j] = r.job]
            /\ task' = [task EXCEPT ![j] = "method"]
            /\ clock' = clock + 1
            /\ UNCHANGED <<locks, job_locks, queue_event>>
       ELSE LET f == set_state(jobs[j], "FAILED", clock)
                rel == release_lock(j, locks, job_locks, queue_event)
            IN /\ jobs' = [jobs EXCEPT ![j] = f.job]
               /\ task' = [task EXCEPT ![j] = "raised"]
               /\ clock' = IF f.raised THEN clock ELSE clock + 1
               /\ locks' = rel.locks
               /\ job_locks' = rel.job_locks
               /\ queue_event' = rel.queue_event
    /\ UNCHANGED <<queue, schedPc, count, dict, lastCall>>
    /\ UNCHANGED sessionVars
    /\ UNCHANGED scan

\* Job.run once the method has returned or raised: set_result and
\* set_state('SUCCESS'), or set_state('FAILED'); then release_lock.
RunEnd(j, ok) ==
    /\ schedPc # "running"
    /\ j \in DOMAIN jobs
    /\ task[j] = "method"
    /\ LET withResult == IF ok THEN [jobs[j] EXCEPT !.result = "value"]
                         ELSE jobs[j]
           r == set_state(withResult, IF ok THEN "SUCCESS" ELSE "FAILED", clock)
           rel == release_lock(j, locks, job_locks, queue_event)
       IN /\ jobs' = [jobs EXCEPT ![j] = r.job]
          /\ clock' = IF r.raised THEN clock ELSE clock + 1
          /\ task' = [task EXCEPT ![j] = IF ok /\ ~r.raised THEN "done"
                                         ELSE "raised"]
          /\ locks' = rel.locks
          /\ job_locks' = rel.job_locks
          /\ queue_event' = rel.queue_event
    /\ UNCHANGED <<queue, schedPc, count, dict, lastCall>>
    /\ UNCHANGED sessionVars
    /\ UNCHANGED scan

\* The running method reports progress: job.set_progress(percent).
ReportProgress(j, percent) ==
    /\ schedPc # "running"
    /\ j \in DOMAIN jobs
    /\ task[j] = "method"
    /\ jobs[j].percent # percent
    /\ jobs' = [jobs EXCEPT ![j] = set_progress(jobs[j], percent)]
    /\ UNCHANGED <<task, queue, queue_event, job_locks, locks, schedPc,
                   count, dict, clock, lastCall>>
    /\ UNCHANGED sessionVars
    /\ UNCHANGED scan

RunReturn(j) == RunEnd(j, TRUE)

RunRaise(j) == RunEnd(j, FALSE)

JobIds == 1..MaxJobs

Next ==
    \/ \E l \in LockNames \cup {NoName} : NewJob(l)
    \/ \E j \in JobIds : Add(j)
    \/ SchedNext
    \/ \E j \in JobIds : RunStart(j)
    \/ \E j \in JobIds : RunReturn(j)
    \/ \E j \in JobIds : RunRaise(j)

Spec == Init /\ [][Next]_vars

\* The scheduler greenlet and every spawned job greenlet get to run, and
\* every job method terminates (returns or raises).
Fairness ==
    /\ WF_vars(SchedNext)
    /\ \A j \in JobIds : WF_vars(RunStart(j))
    /\ \A j \in JobIds : WF_vars(RunReturn(j) \/ RunRaise(j))

FairSpec == Spec /\ Fairness

\* The scheduler with job methods that report progress while they run.
NewReportingJob(lockopt) ==
    /\ Len(jobs) < MaxReportingJobs
    /\ NewJob(lockopt)

ProgressNext ==
    \/ \E l \in LockNames \cup {NoName} : NewReportingJob(l)
    \/ \E j \in JobIds : Add(j)
    \/ SchedNext
    \/ \E j \in JobIds : RunStart(j)
    \/ \E j \in JobIds, percent \in Percents : ReportProgress(j, percent)
    \/ \E j \in JobIds : RunReturn(j)
    \/ \E j \in JobIds : RunRaise(j)

SpecProgress == Init /\ [][ProgressNext]_vars

-----------------------------------------------------------------------------
(* JobsQueue under preemptive threads.  Nothing in JobsQueue takes a mutex: *)
(* it relies on greenlets switching only at blocking calls.  Run on real    *)
(* threads, every read and write of queue, job_locks, a lock's job list,    *)
(* its semaphore and queue_event is a step of its own that other threads'   *)
(* steps may precede or follow.  schedPc is then the statement of           *)
(* JobsQueue.next the scheduler thread stands at and task[j] the statement  *)
(* of release_lock the thread of job j stands at.                           *)

\* queue_event.wait() returns: the for loop starts at the head of the queue.
ParWake ==
    /\ schedPc = "blocked"
    /\ queue_event
    /\ schedPc' = "scan"
    /\ scan' = [i |-> 1, lock |-> None, found |-> None]
    /\ UNCHANGED <<jobs, task, queue, queue_event, job_locks, locks>>
    /\ UNCHANGED <<count, dict, clock, lastCall>>
    /\ UNCHANGED sessionVars

\* The next iteration of the for loop up to get_lock's look-up: the loop
\* ends (for/else), or the job has no lock name (set_lock(None) raises),
\* or job_locks.get(name) returns the entry, or a new entry is created.
ParLookup ==
    /\ schedPc = "scan"
    /\ IF scan.i > Len(queue)
       THEN /\ schedPc' = "clear"
            /\ UNCHANGED <<scan, locks, job_locks>>
       ELSE LET name == get_lock_name(queue[scan.i]) IN
            IF name = NoName
            THEN /\ schedPc' = "crashed"
                 /\ scan' = [scan EXCEPT !.found = queue[scan.i]]
                 /\ UNCHANGED <<locks, job_locks>>
            ELSE IF name \in DOMAIN job_locks
            THEN /\ schedPc' = "register"
                 /\ scan' = [scan EXCEPT !.lock = job_locks[name]]
                 /\ UNCHANGED <<locks, job_locks>>
            ELSE /\ schedPc' = "register"
                 /\ locks' = Append(locks, JobSharedLock(name))
                 /\ job_locks' = (name :> Len(locks')) @@ job_locks
                 /\ scan' = [scan EXCEPT !.lock = Len(locks')]
    /\ UNCHANGED <<jobs, task, queue, queue_event>>
    /\ UNCHANGED <<count, dict, clock, lastCall>>
    /\ UNCHANGED sessionVars

\* lock.add_job(job)
ParRegister ==
    /\ schedPc = "register"
    /\ locks' = [locks EXCEPT ![scan.lock].jobs = Append(@, queue[scan.i])]
    /\ schedPc' = "test"
    /\ UNCHANGED <<jobs, task, queue, queue_event, job_locks, scan>>
    /\ UNCHANGED <<count, dict, clock, lastCall>>
    /\ UNCHANGED sessionVars

\* lock.locked(): a held lock sends the loop to the next queued job.
ParTest ==
    /\ schedPc = "test"
    /\ IF locked(locks[scan.lock])
       THEN /\ schedPc' = "scan"
            /\ scan' = [scan EXCEPT !.i = @ + 1]
       ELSE /\ schedPc' = "acquire"
            /\ scan' = [scan EXCEPT !.found = queue[scan.i]]
    /\ UNCHANGED <<jobs, task, queue, queue_event, job_locks, locks>>
    /\ UNCHANGED <<count, dict, clock, lastCall>>
    /\ UNCHANGED sessionVars

\* job.set_lock(lock): the semaphore is acquired once it is free.
ParAcquire ==
    /\ schedPc = "acquire"
    /\ ~locked(locks[scan.lock])
    /\ jobs' = [jobs EXCEPT ![scan.found].lock = scan.lock]
    /\ locks' = [locks EXCEPT ![scan.lock].counter = @ - 1]
    /\ schedPc' = "remove"
    /\ UNCHANGED <<task, queue, queue_event, job_locks, scan>>
    /\ UNCHANGED <<count, dict, clock, lastCall>>
    /\ UNCHANGED sessionVars

\* queue.remove(found) and the test of len(queue); with jobs left, next
\* returns and JobsQueue.run starts the job's thread.
ParRemove ==
    /\ schedPc = "remove"
    /\ queue' = RemoveFirst(queue, scan.found)
    /\ IF Len(queue') = 0
       THEN /\ schedPc' = "clearfound"
            /\ UNCHANGED task
       ELSE /\ schedPc' = "blocked"
            /\ task' = [task EXCEPT ![scan.found] = "spawned"]
    /\ UNCHANGED <<jobs, queue_event, job_locks, locks, scan>>
    /\ UNCHANGED <<count, dict, clock, lastCall>>
    /\ UNCHANGED sessionVars

\* queue_event.clear() after the last queued job was taken; next returns
\* and JobsQueue.run starts the job's thread.
ParClearFound ==
    /\ schedPc = "clearfound"
    /\ queue_event' = FALSE
    /\ schedPc' = "blocked"
    /\ task' = [task EXCEPT ![scan.found] = "spawned"]
    /\ UNCHANGED <<jobs, queue, job_locks, locks, scan>>
    /\ UNCHANGED <<count, dict, clock, lastCall>>
    /\ UNCHANGED sessionVars

\* queue_event.clear() after a scan that found no job.
ParClear ==
    /\ schedPc = "clear"
    /\ queue_event' = FALSE
    /\ schedPc' = "blocked"
    /\ UNCHANGED <<jobs, task, queue, job_locks, locks, scan>>
    /\ UNCHANGED <<count, dict, clock, lastCall>>
    /\ UNCHANGED sessionVars

\* What task[j] becomes when Job.run is over.
Outcome(j) == IF jobs[j].state = "SUCCESS" THEN "done" ELSE "raised"

\* Job.run once the method has returned or raised, up to the call of
\* release_lock, which returns at once for a job without a lock.
ParRunEnd(j, ok) ==
    /\ j \in DOMAIN jobs
    /\ task[j] = "method"
    /\ LET withResult == IF ok THEN [jobs[j] EXCEPT !.result = "value"]
                         ELSE jobs[j]
           r == set_state(withResult, IF ok THEN "SUCCESS" ELSE "FAILED", clock)
       IN /\ jobs' = [jobs EXCEPT ![j] = r.job]
          /\ clock' = IF r.raised THEN clock ELSE clock + 1
          /\ task' = [task EXCEPT ![j] =
                         IF jobs[j].lock # None THEN "rel_remove"
                         ELSE IF ok /\ ~r.raised THEN "done" ELSE "raised"]
    /\ UNCHANGED <<queue, queue_event, job_locks, locks, schedPc, scan>>
    /\ UNCHANGED <<count, dict, lastCall>>
    /\ UNCHANGED sessionVars

\* release_lock: lock.remove_job(job)
ParRelRemove(j) ==
    /\ j \in DOMAIN jobs
    /\ task[j] = "rel_remove"
    /\ locks' = [locks EXCEPT ![jobs[j].lock].jobs = RemoveFirst(@, j)]
    /\ task' = [task EXCEPT ![j] = "rel_release"]
    /\ UNCHANGED <<jobs, queue, queue_event, job_locks, schedPc, scan>>
    /\ UNCHANGED <<count, dict, clock, lastCall>>
    /\ UNCHANGED sessionVars

\* release_lock: lock.release()
ParRelRelease(j) ==
    /\ j \in DOMAIN jobs
    /\ task[j] = "rel_release"
    /\ locks' = [locks EXCEPT ![jobs[j].lock].counter = @ + 1]
    /\ task' = [task EXCEPT ![j] = "rel_test"]
    /\ UNCHANGED <<jobs, queue, queue_event, job_locks, schedPc, scan>>
    /\ UNCHANGED <<count, dict, clock, lastCall>>
    /\ UNCHANGED sessionVars

\* release_lock: if len(lock.get_jobs()) == 0
ParRelTest(j) ==
    /\ j \in DOMAIN jobs
    /\ task[j] = "rel_test"
    /\ task' = [task EXCEPT ![j] =
                   IF Len(locks[jobs[j].lock].jobs) = 0 THEN "rel_pop"
                   ELSE "rel_set"]
    /\ UNCHANGED <<jobs, queue, queue_event, job_locks, locks, schedPc, scan>>
    /\ UNCHANGED <<count, dict, clock, lastCall>>
    /\ UNCHANGED sessionVars

\* release_lock: self.job_locks.pop(lock.name), a KeyError when the name
\* is no longer a key: Job.run then ends by raising, the event unset.
ParRelPop(j) ==
    /\ j \in DOMAIN jobs
    /\ task[j] = "rel_pop"
    /\ LET name == locks[jobs[j].lock].name IN
       IF name \in DOMAIN job_locks
       THEN /\ job_locks' = Pop(job_locks, name)
            /\ task' = [task EXCEPT ![j] = "rel_set"]
       ELSE /\ task' = [task EXCEPT ![j] = "raised"]
            /\ UNCHANGED job_locks
    /\ UNCHANGED <<jobs, queue, queue_event, locks, schedPc, scan>>
    /\ UNCHANGED <<count, dict, clock, lastCall>>
    /\ UNCHANGED sessionVars

\* release_lock: self.queue_event.set(); Job.run is over.
ParRelSet(j) ==
    /\ j \in DOMAIN jobs
    /\ task[j] = "rel_set"
    /\ queue_event' = TRUE
    /\ task' = [task EXCEPT ![j] = Outcome(j)]
    /\ UNCHANGED <<jobs, queue, job_locks, locks, schedPc, scan>>
    /\ UNCHANGED <<count, dict, clock, lastCall>>
    /\ UNCHANGED sessionVars

ParNext ==
    \/ \E l \in LockNames \cup {NoName} : NewJob(l)
    \/ \E j \in JobIds : Add(j)
    \/ ParWake
    \/ ParLookup
    \/ ParRegister
    \/ ParTest
    \/ ParAcquire
    \/ ParRemove
    \/ ParClearFound
    \/ ParClear
    \/ \E j \in JobIds : RunStart(j)
    \/ \E j \in JobIds, ok \in BOOLEAN : ParRunEnd(j, ok)
    \/ \E j \in JobIds : ParRelRemove(j)
    \/ \E j \in JobIds : ParRelRelease(j)
    \/ \E j \in JobIds : ParRelTest(j)
    \/ \E j \in JobIds : ParRelPop(j)
    \/ \E j \in JobIds : ParRelSet(j)

SpecPar == Init /\ [][ParNext]_vars

-----------------------------------------------------------------------------
(* Direct use of Job and JobsDeque, as Middleware does *)

\* JobsDeque.add(job), called on the history alone
\* (Middleware.call_method: self.__jobs.add(job)).
DequeAdd(j) ==
    /\ j \in DOMAIN jobs
    /\ jobs[j].id = None
    /\ count' = NextCount(count)
    /\ jobs' = [jobs EXCEPT ![j].id = count']
    /\ dict' = DequeItems(dict, count', j)
    /\ UNCHANGED <<clock, lastCall>>
    /\ UNCHANGED schedVars
    /\ UNCHANGED sessionVars

\* job.set_state(state), called by any holder of the job.
CallSetState(j, state) ==
    /\ j \in DOMAIN jobs
    /\ LET r == set_state(jobs[j], state, clock) IN
       /\ jobs' = [jobs EXCEPT ![j] = r.job]
       /\ clock' = IF r.raised THEN clock ELSE clock + 1
       /\ lastCall' = [job |-> j, state |-> state, raised |-> r.raised,
                       before |-> Stamp(jobs[j])]
    /\ UNCHANGED schedVars
    /\ UNCHANGED dequeVars
    /\ UNCHANGED sessionVars

\* Middleware.run_job in its greenlet: the method returned (set_result,
\* then set_state('SUCCESS')) or raised (set_state('FAILED')).
run_job(j, ok) ==
    /\ j \in DOMAIN jobs
    /\ jobs[j].id # None
    /\ task[j] = "none"
    /\ LET withResult == IF ok THEN [jobs[j] EXCEPT !.result = "value"]
                         ELSE jobs[j]
           state == IF ok THEN "SUCCESS" ELSE "FAILED"
           r == set_state(withResult, state, clock)
       IN /\ jobs' = [jobs EXCEPT ![j] = r.job]
          /\ clock' = IF r.raised THEN clock ELSE clock + 1
          /\ lastCall' = [job |-> j, state |-> state, raised |-> r.raised,
                          before |-> Stamp(withResult)]
          /\ task' = [task EXCEPT ![j] = IF ok /\ ~r.raised THEN "done"
                                         ELSE "raised"]
    /\ UNCHANGED <<queue, queue_event, job_locks, locks, schedPc>>
    /\ UNCHANGED dequeVars
    /\ UNCHANGED sessionVars
    /\ UNCHANGED scan

\* Job(): a job built as Middleware.call_method builds it, without options.
NewPlainJob ==
    /\ Len(jobs) < MaxPlainJobs
    /\ NewJob(NoName)

JobNext ==
    \/ NewPlainJob
    \/ \E j \in JobIds : DequeAdd(j)
    \/ \E j \in JobIds, state \in States : CallSetState(j, state)
    \/ \E j \in JobIds, ok \in BOOLEAN : run_job(j, ok)

SpecJob == Init /\ [][JobNext]_vars

\* A caller builds a job without a lock and records it in the history:
\* Job(...) followed by JobsDeque.add(job).
JobCall ==
    /\ count < MaxAdds
    /\ count' = NextCount(count)
    /\ jobs' = Append(jobs, [NewJobObject(NoName) EXCEPT !.id = count'])
    /\ task' = Append(task, "none")
    /\ dict' = DequeItems(dict, count', Len(jobs'))
    /\ UNCHANGED <<queue, queue_event, job_locks, locks, schedPc, clock,
                   lastCall>>
    /\ UNCHANGED sessionVars
    /\ UNCHANGED scan

\* Job(...): a caller builds a job and has not handed it over yet; every
\* job built before has been added.
NewHistoryJob ==
    /\ count < MaxAdds
    /\ Len(jobs) = count
    /\ jobs' = Append(jobs, NewJobObject(NoName))
    /\ task' = Append(task, "none")
    /\ UNCHANGED <<clock, lastCall>>
    /\ UNCHANGED <<queue, queue_event, job_locks, locks, schedPc, scan>>
    /\ UNCHANGED dequeVars
    /\ UNCHANGED sessionVars

\* JobsDeque.add of the job built last.
HistoryAdd == Len(jobs) > 0 /\ DequeAdd(Len(jobs))

\* Callers hand a job over before the next one is built.
DequeNext ==
    \/ Len(jobs) = count /\ JobCall
    \/ NewHistoryJob
    \/ HistoryAdd

SpecDeque == Init /\ [][DequeNext]_vars

-----------------------------------------------------------------------------
(* Application and Middleware: the session protocol *)

\* Application.sessionid, str(uuid.uuid4())
sessionid == "session-uuid"

\* The service registry the plugins fill: the methods that exist, those
\* carrying _no_auth_required and those carrying _job.
KnownMethods == {"system.info", "auth.check", "backup.run"}
NoAuthRequired == {"auth.check"}
JobMethods == {"backup.run"}

MethodNames == KnownMethods \cup {"nosuch.method"}

\* The decoded messages a client may send; id is the call id.
Messages(id) ==
    [msg : {"connect"}, version : {"1", "2", "None"}, id : {id},
     method : {"None"}]
    \cup [msg : {"method"}, version : {"None"}, id : {id},
          method : MethodNames]
    \cup [msg : {"ping"}, version : {"None"}, id : {id}, method : {"None"}]

\* The dict Application.send_error sends.
send_error(message, error, stacktrace) ==
    [msg |-> "result", id |-> message.id,
     error |-> [error |-> error, stacktrace |-> stacktrace]]

\* Middleware.call_method.  ok: whether the method body, if called,
\* returns.  Gives what it sent through app.send_error, whether it raised
\* and with what, its return value, and whether the body was called.
Middleware_call_method(message, ok) ==
    IF message.method \notin KnownMethods
    THEN [sent |-> <<>>, raised |-> TRUE, exc |-> "KeyError",
          result |-> "None", invoked |-> FALSE]
    ELSE IF ~authenticated /\ message.method \notin NoAuthRequired
    THEN [sent |-> <<send_error(message, "Not authenticated", "None")>>,
          raised |-> FALSE, exc |-> "None", result |-> "None",
          invoked |-> FALSE]
    ELSE IF message.method \in JobMethods
    THEN \* Job() lacks the three arguments Job.__init__ requires
         [sent |-> <<>>, raised |-> TRUE, exc |-> "TypeError",
          result |-> "None", invoked |-> FALSE]
    ELSE IF ok
    THEN [sent |-> <<>>, raised |-> FALSE, exc |-> "None",
          result |-> "value", invoked |-> TRUE]
    ELSE [sent |-> <<>>, raised |-> TRUE, exc |-> "MethodError",
          result |-> "None", invoked |-> TRUE]

\* Application.call_method: what goes to the socket, and whether the
\* method body was called.
Application_call_method(message, ok) ==
    LET r == Middleware_call_method(message, ok) IN
    [sent |-> r.sent \o
              (IF r.raised
               THEN <<send_error(message, r.exc, "traceback")>>
               ELSE <<[id |-> message.id, msg |-> "result",
                       result |-> r.result]>>),
     invoked |-> r.invoked]

ConnectAnyVersion(message) ==
    [sent |-> <<[msg |-> "connected", session |-> sessionid]>>,
     handshake |-> TRUE]

\* The connect branch of Application.on_message.
Connect(message) ==
    IF message.version # "1"
    THEN [sent |-> <<[msg |-> "failed", version |-> "1"]>>,
          handshake |-> handshake]
    ELSE [sent |-> <<[msg |-> "connected", session |-> sessionid]>>,
          handshake |-> TRUE]

AwaitingHandshakeNever == FALSE

\* The test "if not self.handshake" of Application.on_message.
AwaitingHandshake == ~handshake

\* Application.on_message: what it sends, the handshake flag it leaves,
\* whether it called Application.call_method, and whether a method body
\* was called.
on_message(message, ok) ==
    IF message.msg = "connect"
    THEN LET c == Connect(message) IN
         [sent |-> c.sent, handshake |-> c.handshake, dispatched |-> FALSE,
          invoked |-> FALSE]
    ELSE IF AwaitingHandshake
    THEN [sent |-> <<[msg |-> "failed", version |-> "1"]>>,
          handshake |-> handshake, dispatched |-> FALSE, invoked |-> FALSE]
    ELSE LET c == IF message.msg = "method"
                  THEN Application_call_method(message, ok)
                  ELSE [sent |-> <<>>, invoked |-> FALSE]
         IN [sent |-> c.sent \o
                      (IF ~authenticated
                       THEN <<send_error(message, "Not authenticated",
                                         "None")>>
                       ELSE <<>>),
             handshake |-> handshake,
             dispatched |-> (message.msg = "method"),
             invoked |-> c.invoked]

\* The transport delivers one decoded message to Application.on_message.
OnMessage(message, ok) ==
    /\ Len(received) < MaxMessages
    /\ LET r == on_message(message, ok) IN
       /\ sent' = sent \o r.sent
       /\ handshake' = r.handshake
       /\ invoked' = IF r.invoked THEN invoked \cup {message.id} ELSE invoked
       /\ received' = Append(received,
                             [message |-> message, before |-> handshake,
                              after |-> r.handshake, sent |-> r.sent,
                              dispatched |-> r.dispatched])
    /\ UNCHANGED authenticated
    /\ UNCHANGED <<jobs, clock, lastCall>>
    /\ UNCHANGED schedVars
    /\ UNCHANGED dequeVars

SessionNext ==
    \E message \in Messages(Len(received) + 1), ok \in BOOLEAN :
        OnMessage(message, ok)

\* A connection has been opened; _check_permission has decided either way.
SessionInit == CoreInit /\ authenticated \in BOOLEAN

SpecSession == SessionInit /\ [][SessionNext]_vars

-----------------------------------------------------------------------------
(* Vocabulary of the claims *)

Range(s) == {s[i] : i \in DOMAIN s}

Submitted(j) == j \in DOMAIN jobs /\ jobs[j].id # None

Terminal(j) == jobs[j].state \in {"SUCCESS", "FAILED"}

Running(j) == jobs[j].state = "RUNNING"

\* Job.run has returned (or raised) for j, release_lock included.
Released(j) == task[j] \in {"done", "raised"}

\* j has been handed its lock by the scheduler and has not released it.
Holding(j) == jobs[j].lock # None /\ task[j] \in {"spawned", "method"}

\* j is pending and a scan has registered it with a lock.
Awaiting(j) ==
    /\ j \in Range(queue)
    /\ \E k \in DOMAIN locks : j \in Range(locks[k].jobs)

SameLock(i, j) ==
    /\ i # j
    /\ jobs[i].lockopt # NoName
    /\ jobs[i].lockopt = jobs[j].lockopt

-----------------------------------------------------------------------------
(* C1: among the jobs that share a lock name at most one is RUNNING at    *)
(* any instant.                                                            *)
C1_MutualExclusion ==
    \A i, j \in DOMAIN jobs :
        SameLock(i, j) => ~(Running(i) /\ Running(j))

\* One job runs while a second job of the same lock name has been scanned
\* and left pending, and a job of another lock name runs beside it.
C1_Witness ==
    \E i, j, k \in DOMAIN jobs :
        /\ SameLock(i, j) /\ Running(i) /\ Awaiting(j)
        /\ jobs[k].lockopt \notin {NoName, jobs[i].lockopt}
        /\ Running(k)

(* C2: every submitted job eventually reaches SUCCESS or FAILED.           *)
C2_EventuallyFinished ==
    \A j \in JobIds : Submitted(j) ~> (Submitted(j) /\ Terminal(j))

(* C5: the registry has an entry for a lock name exactly when some job     *)
(* that declared the name is awaiting or holding the lock.                 *)
C5_EntryIffReferenced ==
    \A n \in LockNames :
        n \in DOMAIN job_locks <=>
            \E j \in DOMAIN jobs :
                jobs[j].lockopt = n /\ (Awaiting(j) \/ Holding(j))

(* C8: of two jobs with the same lock name the later-submitted one stays   *)
(* WAITING until the earlier one has finished and released the lock, and   *)
(* after that it is dispatched and becomes RUNNING.                         *)
C8_Earlier(i, j) ==
    /\ Submitted(i) /\ Submitted(j)
    /\ SameLock(i, j)
    /\ jobs[i].id < jobs[j].id

C8_SecondWaitsThenRuns ==
    /\ [](\A i, j \in JobIds :
            (C8_Earlier(i, j) /\ ~(Terminal(i) /\ Released(i)))
                => jobs[j].state = "WAITING")
    /\ \A i, j \in JobIds :
            (C8_Earlier(i, j) /\ Terminal(i) /\ Released(i))
                ~> (Submitted(j) /\ jobs[j].state # "WAITING")

\* The part of C8 that is about waiting only.
C8_SecondWaits ==
    \A i, j \in DOMAIN jobs :
        (C8_Earlier(i, j) /\ ~(Terminal(i) /\ Released(i)))
            => jobs[j].state = "WAITING"

(* C3: set_state accepts exactly WAITING -> RUNNING, RUNNING -> SUCCESS    *)
(* and RUNNING -> FAILED, and rejects every other request.                 *)
LegalTransitions ==
    {<<"WAITING", "RUNNING">>, <<"RUNNING", "SUCCESS">>,
     <<"RUNNING", "FAILED">>}

C3_OnlyLegalTransitions ==
    lastCall.job # None =>
        (~lastCall.raised <=>
            <<lastCall.before.state, lastCall.state>> \in LegalTransitions)

(* C4: a set_state request on a job in SUCCESS or FAILED raises and        *)
(* leaves the job's state and time_finished as they were.                  *)
C4_TerminalImmutable ==
    (lastCall.job # None /\ lastCall.before.state \in {"SUCCESS", "FAILED"})
        => /\ lastCall.raised
           /\ jobs[lastCall.job].state = lastCall.before.state
           /\ jobs[lastCall.job].time_finished = lastCall.before.time_finished

\* A request for RUNNING or SUCCESS has just been made on a FAILED job
\* whose time_finished is set.
C4_Witness ==
    /\ lastCall.job # None
    /\ lastCall.before.state = "FAILED"
    /\ lastCall.state \in {"RUNNING", "SUCCESS"}
    /\ lastCall.before.time_finished # None

(* C6: the history never holds more than maxlen jobs.                      *)
C6_SizeWithinCapacity == Len(dict) <= maxlen

(* C7: after maxlen + 1 adds into an empty history, job id 1 is gone and   *)
(* ids 2 .. maxlen + 1 are all retrievable.                                *)
C7_OldestEvicted ==
    count = maxlen + 1 => DequeKeys = 2..(maxlen + 1)

(* C9: a method message on an unauthenticated session, for a method that   *)
(* does not carry _no_auth_required, is answered for its call id with the  *)
(* error envelope "Not authenticated", and the method body is not called.  *)
NotAuthenticatedEnvelope(r, id) ==
    /\ r.msg = "result"
    /\ r.id = id
    /\ "error" \in DOMAIN r
    /\ r.error.error = "Not authenticated"

\* The replies among s that carry call id.
RepliesFor(s, id) ==
    {i \in DOMAIN s : s[i].msg = "result" /\ s[i].id = id}

C9_Denied(e) ==
    /\ e.before
    /\ e.message.msg = "method"
    /\ e.message.method \in KnownMethods \ NoAuthRequired
    /\ ~authenticated

C9_NotAuthenticatedReply ==
    \A k \in DOMAIN received :
        C9_Denied(received[k]) =>
            LET id == received[k].message.id IN
            /\ RepliesFor(sent, id) # {}
            /\ \A i \in RepliesFor(sent, id) :
                   NotAuthenticatedEnvelope(sent[i], id)
            /\ id \notin invoked

\* The part of C9 the code keeps: an error envelope is among the replies
\* and the method body is not called.
C9_DeniedWithoutCall ==
    \A k \in DOMAIN received :
        C9_Denied(received[k]) =>
            LET id == received[k].message.id IN
            /\ \E i \in RepliesFor(sent, id) :
                   NotAuthenticatedEnvelope(sent[i], id)
            /\ id \notin invoked

(* C10: in AwaitingHandshake, connect with version "1" is answered with    *)
(* connected and the session id and makes the session Connected; connect   *)
(* with another or no version is answered with failed, version "1", and    *)
(* leaves the session in AwaitingHandshake.                                *)
C10_Handshake ==
    \A k \in DOMAIN received :
        LET e == received[k] IN
        (e.message.msg = "connect" /\ ~e.before) =>
            IF e.message.version = "1"
            THEN /\ e.after
                 /\ e.sent = <<[msg |-> "connected", session |-> sessionid]>>
                 /\ (k = Len(received) => handshake)
            ELSE /\ ~e.after
                 /\ e.sent = <<[msg |-> "failed", version |-> "1"]>>
                 /\ (k = Len(received) => ~handshake)

\* A fresh session has refused a connect without a version and one with
\* version "2", and has then accepted a connect with version "1".
C10_Witness ==
    /\ Len(received) = 3
    /\ received[1].message.msg = "connect"
    /\ received[1].message.version = "None"
    /\ received[2].message.msg = "connect"
    /\ received[2].message.version = "2"
    /\ ~received[2].after
    /\ received[3].message.msg = "connect"
    /\ received[3].message.version = "1"
    /\ handshake
    /\ Len(sent) = 3

(* C11: a message other than connect that arrives in AwaitingHandshake is  *)
(* answered with failed, leaves the handshake state alone and is not       *)
(* passed to the dispatcher; no method body runs before a handshake.       *)
C11_RejectedBeforeHandshake ==
    /\ \A k \in DOMAIN received :
           LET e == received[k] IN
           (e.message.msg # "connect" /\ ~e.before) =>
               /\ e.sent = <<[msg |-> "failed", version |-> "1"]>>
               /\ ~e.after
               /\ ~e.dispatched
               /\ e.message.id \notin invoked
    /\ \A k \in DOMAIN received :
           received[k].message.id \in invoked => received[k].before

\* An authenticated session has been sent a method call for a known
\* method and a ping before any connect, and a call after the handshake
\* has run its method body.
C11_Witness ==
    /\ authenticated
    /\ Len(received) = 3
    /\ received[1].message.msg = "method"
    /\ received[1].message.method = "system.info"
    /\ ~received[1].before
    /\ received[2].message.msg = "connect"
    /\ received[2].after
    /\ received[3].message.msg = "method"
    /\ 3 \in invoked

(* C12: an authorised call of a method marked as a job builds a WAITING    *)
(* Job, records it in the history, puts it on the pending queue and        *)
(* returns the job's id as the result of the call.                         *)
C12_JobCall(e) ==
    /\ e.before
    /\ e.message.msg = "method"
    /\ e.message.method \in JobMethods
    /\ authenticated \/ e.message.method \in NoAuthRequired

C12_JobCallReturnsId ==
    \A k \in DOMAIN received :
        C12_JobCall(received[k]) =>
            /\ \E i \in RepliesFor(sent, received[k].message.id) :
                   "result" \in DOMAIN sent[i]
            /\ \E j \in DOMAIN jobs :
                   /\ jobs[j].id # None
                   /\ j \in Range(queue)
                   /\ \E d \in DOMAIN dict : dict[d].job = j

(* C13: a job whose method raises ends FAILED with result None and with    *)
(* the progress it last reported; the scheduler and the other jobs are     *)
(* left as they were.                                                      *)
C13_MethodRaises(j) ==
    /\ j \in DOMAIN jobs
    /\ task[j] = "method"
    /\ task'[j] = "raised"

C13_FailureIsContained ==
    [][\A j \in JobIds :
         C13_MethodRaises(j) =>
             /\ jobs'[j].state = "FAILED"
             /\ jobs'[j].result = "None"
             /\ jobs'[j].percent = jobs[j].percent
             /\ schedPc' = schedPc
             /\ queue' = queue
             /\ \A i \in DOMAIN jobs : i # j => jobs'[i] = jobs[i]]_vars

\* A job has failed with 50 percent as its last report and no result,
\* another job is RUNNING, and the scheduler is alive, waiting for the
\* event.
C13_Witness ==
    \E i, j \in DOMAIN jobs :
        /\ task[j] = "raised"
        /\ jobs[j].state = "FAILED"
        /\ jobs[j].percent = 50
        /\ jobs[j].result = "None"
        /\ Running(i)
        /\ schedPc = "blocked"

(* C14: time_finished is None while a job is WAITING or RUNNING, and is    *)
(* set once, on the transition into SUCCESS or FAILED.                     *)
C14_FinishedOnlyWhenTerminal ==
    \A j \in DOMAIN jobs :
        jobs[j].state \in {"WAITING", "RUNNING"}
            => jobs[j].time_finished = None

\* The lock registered under j's lock name is held.
LockHeld(j) ==
    /\ jobs[j].lockopt # NoName
    /\ jobs[j].lockopt \in DOMAIN job_locks
    /\ locked(locks[job_locks[jobs[j].lockopt]])

\* j declares a lock name whose lock is absent from the registry or free.
LockFree(j) == jobs[j].lockopt # NoName /\ ~LockHeld(j)

\* s without its q-th element.
Without(s, q) == SubSeq(s, 1, q - 1) \o SubSeq(s, q + 1, Len(s))

(* C15: a pending job without a lock option is eligible: when the scan     *)
(* reaches it, it is returned, taken off the queue and dispatched, and the *)
(* scheduler loop goes on.                                                 *)
C15_LocklessDispatched ==
    [][\A q \in DOMAIN queue :
         (/\ SchedNext
          /\ jobs[queue[q]].lockopt = NoName
          /\ \A p \in 1..(q - 1) : LockHeld(queue[p]))
         => /\ task'[queue[q]] = "spawned"
            /\ queue' = Without(queue, q)
            /\ schedPc' # "crashed"]_vars

(* C16: a pending job whose lock is held does not block the jobs behind    *)
(* it: the scan dispatches the first later job whose lock is free and      *)
(* leaves the skipped jobs queued where they were.                         *)
C16_SkipsHeldLocks ==
    [][\A q \in DOMAIN queue :
         (/\ SchedNext
          /\ q > 1
          /\ LockFree(queue[q])
          /\ \A p \in 1..(q - 1) : LockHeld(queue[p]))
         => /\ task'[queue[q]] = "spawned"
            /\ jobs'[queue[q]].lock # None
            /\ queue' = Without(queue, q)
            /\ \A p \in 1..(q - 1) :
                   /\ queue'[p] = queue[p]
                   /\ task'[queue[p]] = "none"]_vars

\* Job i holds a lock, job j of the same lock name is still pending, and
\* job k, submitted after j under another lock name, has been dispatched.
C16_Witness ==
    \E i, j, k \in DOMAIN jobs :
        /\ SameLock(i, j) /\ Holding(i) /\ Awaiting(j)
        /\ jobs[k].lockopt \notin {NoName, jobs[i].lockopt}
        /\ jobs[j].id < jobs[k].id
        /\ Holding(k)
        /\ jobs[j].state = "WAITING"

(* C17: on both ways out of Job.run the job releases its lock: when the    *)
(* run of a lock-holding job ends, the job is SUCCESS or FAILED, its       *)
(* semaphore is free again and the wake signal is set.                     *)
C17_RunEnds(j) ==
    /\ j \in DOMAIN jobs
    /\ task[j] \in {"spawned", "method"}
    /\ task'[j] \in {"done", "raised"}
    /\ jobs[j].lock # None

C17_ReleasesOnExit ==
    [][\A j \in JobIds :
         C17_RunEnds(j) =>
             /\ jobs'[j].state \in {"SUCCESS", "FAILED"}
             /\ locks'[jobs[j].lock].counter = locks[jobs[j].lock].counter + 1
             /\ ~locked(locks'[jobs[j].lock])
             /\ queue_event']_vars

\* One lock-holding job has returned and one has raised; both locks are
\* free and the wake signal is set.
C17_Witness ==
    \E i, j \in DOMAIN jobs :
        /\ task[i] = "done" /\ jobs[i].state = "SUCCESS"
        /\ task[j] = "raised" /\ jobs[j].state = "FAILED"
        /\ jobs[i].lock # None /\ jobs[j].lock # None
        /\ ~locked(locks[jobs[i].lock])
        /\ ~locked(locks[jobs[j].lock])
        /\ queue_event

(* C18: no wakeup is lost: whenever the scheduler waits on a cleared       *)
(* queue_event, every pending job has a lock name whose registered lock    *)
(* is held; this also when add or release_lock run between the scan and    *)
(* the clearing of the event.                                              *)
C18_NoLostWakeup ==
    (schedPc = "blocked" /\ ~queue_event)
        => \A q \in DOMAIN queue : LockHeld(queue[q])

(* C19: with the steps of release_lock and of the scheduler's scan         *)
(* interleaved, no two jobs of one lock name are RUNNING together, and the *)
(* lock of a RUNNING job is the entry registered under its lock name.      *)
C19_ExclusionUnderThreads ==
    /\ \A i, j \in DOMAIN jobs :
           SameLock(i, j) => ~(Running(i) /\ Running(j))
    /\ \A j \in DOMAIN jobs :
           (Running(j) /\ jobs[j].lock # None) =>
               /\ jobs[j].lockopt \in DOMAIN job_locks
               /\ job_locks[jobs[j].lockopt] = jobs[j].lock

(* C20: the ids the history assigns increase strictly in the order of the  *)
(* add calls, so none is used twice, also once older jobs have been        *)
(* evicted; a job that has not been added has no id.                       *)
C20_IdsStrictlyIncrease ==
    /\ \A i \in DOMAIN jobs : (jobs[i].id = None) <=> (i > count)
    /\ \A i \in 1..(Len(jobs) - 1) :
           jobs[i + 1].id # None => jobs[i].id < jobs[i + 1].id

\* The add after the first eviction: job 1 has left the history and the
\* job added last carries the largest id.
C20_Witness ==
    /\ count = maxlen + 2
    /\ Len(jobs) = count
    /\ dict[1].key = 2
    /\ jobs[count].id = maxlen + 2
    /\ jobs[1].id = 1

(* C21: on a Connected session every method message gets exactly one      *)
(* reply carrying its call id, and that reply is either a result or an     *)
(* error, whatever the session's authentication and the method's need of   *)
(* it.                                                                     *)
C21_MethodCall(e) == e.before /\ e.message.msg = "method"

C21_ExactlyOneReply ==
    \A k \in DOMAIN received :
        C21_MethodCall(received[k]) =>
            LET id == received[k].message.id IN
            /\ Cardinality(RepliesFor(sent, id)) = 1
            /\ \A i \in RepliesFor(sent, id) :
                   ("result" \in DOMAIN sent[i]) # ("error" \in DOMAIN sent[i])

====
